---- MODULE Spec2Model ----
(***************************************************************************)
(* dnsping: a model of the two probing sessions of the repository.         *)
(*                                                                         *)
(*  - src/src/lib.rs, ping: the continuous session.  A spawned sender      *)
(*    thread inserts (id -> Instant) into the shared time_map, sends the   *)
(*    query and counts it in a_send; the calling thread receives, looks    *)
(*    the reply's id up, accounts it and removes the entry, until the      *)
(*    stopped flag is seen, and then prints the statistics.  (Spec)        *)
(*                                                                         *)
(*  - src/src/main.rs, main: the session built on the single-shot probe.   *)
(*    A spawned thread probes in a loop and updates five atomics; the main *)
(*    thread blocks on a channel that Ctrl+C or the thread itself writes,  *)
(*    then loads the atomics and prints the statistics.  (MainSpec)        *)
(*                                                                         *)
(* Widths are scaled: TLC's integers cannot hold usize::MAX or u64::MAX,   *)
(* and a session cannot be run for 65536 probes, so the u16 identifier     *)
(* is taken modulo IdModulus and the wide integers have WidthBits bits.    *)
(***************************************************************************)
EXTENDS Integers, FiniteSets, Sequences, TLC

\* ---------------------------------------------------------------- bounds
\* The number of values of the u16 query identifier (65536, scaled).
IdModulus == 2
\* The sender thread of lib.rs issues at most this many queries.
MaxProbes == 3
\* The clock (microseconds, scaled) runs from 0 to MaxTime.
MaxTime == 1
\* Bits of usize / u64 / u128 (scaled).
WidthBits == 5
\* Ctrl+C is pressed at most this many times.
MaxSignals == 1

\* usize::MAX, u64::MAX and u128::MAX at the scaled width.
WideMax == 2^WidthBits - 1
Ids == 0 .. IdModulus - 1
\* A datagram: its kind tells where it comes from and whether it parses;
\* seq and sentAt name the query a reply of the server answers (0: none).
Datagram(k, i, q, t) == [kind |-> k, id |-> i, seq |-> q, sentAt |-> t]
NoDatagram == Datagram("none", 0, 0, 0)
\* What may arrive besides the server's replies (which the network may
\* lose, delay and deliver more than once): a parsable datagram from
\* another address, an unparsable one and an empty one.
Junk == {Datagram("other_addr", i, 0, 0) : i \in Ids}
          \cup {Datagram("unparsable", 0, 0, 0), Datagram("empty", 0, 0, 0)}
NoReport == [kind |-> "none"]

VARIABLES
  \* ---- lib.rs, ping
  overflowChecks, \* build profile: does `id += 1` panic on overflow;
                  \* "either" until the first overflow shows which
  id,             \* the sender thread's `id`
  stamp,          \* the Instant recorded for the query about to be sent
  time_map,       \* a_time_map: HashMap<u16, Instant>, as a function
  a_send,         \* a_send: AtomicUsize
  recv, min, max, total,  \* the receiver's locals
  stopped,        \* stopped: AtomicBool, set by the caller
  pcS,            \* sender thread: "insert" | "send_to" | "fetch_add" | "panicked"
  pcR,            \* receiver: "check" | "recv_from" | "lookup" | "remove"
                  \*           | "report" | "done" | "failed"
  cur,            \* the datagram the receiver parsed and is handling
  net,            \* replies of the server that are in flight
  now,            \* Instant::now()
  nsent,          \* how many queries the sender has recorded so far
  lastSeq,        \* per id, the number of the latest query recorded with it
  fresh,          \* per id: the latest query with it was recorded while no
                  \* datagram with the id was in flight or in the receiver's
                  \* hands, and the receiver has handled none with it since
  report,         \* the statistics printed by ping
  found,          \* ghost: the query (its sequence number) whose entry the
                  \* receiver's lookup found, 0 for none
  result,         \* what ping returned: "none" yet, "Ok", or the kind of
                  \* the io::Error ("TimedOut" | "Other")
  \* ---- main.rs, main (m_send and m_recv are main's `send` and `recv`)
  hostOk,         \* flags.host: does query.build() succeed
  count,          \* flags.count, 0 for no limit
  m_send, m_recv, latency_total, latency_min, latency_max,  \* the atomics
  chan,           \* messages waiting in the mpsc channel (tx -> rx)
  signals,        \* Ctrl+C interrupts so far
  pcP,            \* probing thread: "build" | "fetch_add" | "ping" | "ping_recv"
                  \*   | "match" | "recv_add" | "total_add" | "max_upd"
                  \*   | "min_upd" | "count" | "returned"
  p_id,           \* the probing thread's `id`
  duration,       \* the probing thread's `duration`, in microseconds
  m_net,          \* ids of the replies in flight to the single-shot probe
  p_cur,          \* the datagram the single-shot probe received last
  p_result,       \* what lib::ping returned: "none" yet, "Ok", or the kind
                  \* of the io::Error ("TimedOut" | "Other")
  timeouts,       \* TimedOut lines the probing thread printed
  errors,         \* errors the probing thread reported with eprintln!
  pcM,            \* main thread: "rx_recv" | "load_send" | "load_recv"
                  \*   | "load_total" | "load_min" | "load_max" | "print"
                  \*   | "exited" | "panicked"
  r_send, r_recv, lost, loss_rate, r_total, latency_avg, r_min, r_max,
                  \* main's locals send, recv, lost, loss_rate, latency_*
  m_report        \* the statistics printed by main

libVars == <<overflowChecks, id, stamp, time_map, a_send, recv, min, max, total,
             stopped, pcS, pcR, cur, net, now, nsent, lastSeq, fresh, report,
             result, found>>

mainVars == <<hostOk, count, m_send, m_recv, latency_total, latency_min,
              latency_max, chan, signals, pcP, p_id, duration, m_net, p_cur,
              p_result, timeouts, errors, pcM,
              r_send, r_recv, lost, loss_rate, r_total, latency_avg, r_min,
              r_max, m_report>>

vars == <<libVars, mainVars>>

\* ------------------------------------------------------ pure functions
CmpMin(a, b) == IF a < b THEN a ELSE b
CmpMax(a, b) == IF a > b THEN a ELSE b

\* The received count in place of the lost count.
ReceivedCount(send, rcv) == rcv
\* send.checked_sub(recv).unwrap_or_else(|| send + (usize::MAX - recv))
LostCount(send, rcv) ==
  IF send >= rcv THEN send - rcv ELSE send + (WideMax - rcv)

\* (lost as f64) / (send as f64) * 100.0, in hundredths of a percent;
\* f64 division by 0.0 gives NaN for 0.0 / 0.0 and inf otherwise.
FloatLossRate(l, send) ==
  IF send = 0 THEN (IF l = 0 THEN "NaN" ELSE "inf")
  ELSE (l * 10000) \div send

\* A map whose insert keeps the entry a key already has.
MapInsertKeep(m, k, v) ==
  [x \in (DOMAIN m) \cup {k} |-> IF x \in DOMAIN m THEN m[x] ELSE v]
\* HashMap::insert: the entry for the key is created or overwritten.
MapInsert(m, k, v) == [x \in (DOMAIN m) \cup {k} |-> IF x = k THEN v ELSE m[x]]
\* A map whose remove leaves the entry in place.
MapRemoveNothing(m, k) == m
\* HashMap::remove
MapRemove(m, k) == [x \in (DOMAIN m) \ {k} |-> m[x]]

\* `id += 1` on a u16: wraps without overflow checks.
NextId(i) == (i + 1) % IdModulus
IdOverflows(i) == i = IdModulus - 1

\* ------------------------------------------------------------- lib.rs
LibInit ==
  /\ overflowChecks = "either"
  /\ id = 0
  /\ stamp = 0
  /\ time_map = << >>
  /\ a_send = 0
  /\ recv = 0 /\ min = WideMax /\ max = 0 /\ total = 0
  /\ stopped = FALSE
  /\ pcS = "insert" /\ pcR = "check"
  /\ cur = NoDatagram
  /\ net = {}
  /\ now = 0
  /\ nsent = 0
  /\ lastSeq = [i \in Ids |-> 0]
  /\ fresh = [i \in Ids |-> FALSE]
  /\ report = NoReport
  /\ result = "none"
  /\ found = 0

\* The process lives until ping has returned.
LibRunning == pcR \notin {"done", "failed"}

\* A sender that hands the next query to the transport before it records
\* the timestamp.
SenderSendBeforeInsert ==
  /\ LibRunning /\ pcS = "insert" /\ nsent < MaxProbes
  /\ ~IdOverflows(id)
  /\ id' = NextId(id)
  /\ stamp' = now
  /\ net' = net \cup {Datagram("reply", NextId(id), nsent + 1, now)}
  /\ pcS' = "send_to"
  /\ UNCHANGED <<mainVars, overflowChecks, time_map, a_send, recv, min, max,
                 total, stopped, pcR, cur, now, nsent, lastSeq, fresh,
                 report, result,
                 found>>

\* lib.rs 158-169: id += 1, build the query, record the timestamp.
SenderInsert ==
  /\ LibRunning /\ pcS = "insert" /\ nsent < MaxProbes
  /\ \E checks \in IF ~IdOverflows(id) THEN {overflowChecks}
                    ELSE IF overflowChecks = "either" THEN {"on", "off"}
                    ELSE {overflowChecks} :
       /\ overflowChecks' = checks
       /\ IF IdOverflows(id) /\ checks = "on"
            THEN /\ pcS' = "panicked"
                 /\ UNCHANGED <<id, stamp, time_map, nsent, lastSeq, fresh>>
            ELSE LET i == NextId(id) IN
                 /\ id' = i
                 /\ stamp' = now
                 /\ time_map' = MapInsert(time_map, i, now)
                 /\ nsent' = nsent + 1
                 /\ lastSeq' = [lastSeq EXCEPT ![i] = nsent + 1]
                 /\ fresh' = [fresh EXCEPT ![i] =
                                /\ \A d \in net : d.id # i
                                /\ ~(pcR \in {"lookup", "remove"}
                                      /\ cur.id = i)]
                 /\ pcS' = "send_to"
  /\ UNCHANGED <<mainVars, a_send, recv, min, max, total, stopped, pcR, cur,
                 net, now, report, result,
                 found>>

\* lib.rs 172-177: send_to; Ok hands the query to the network (the server's
\* reply is then in flight), Err is printed and the query is not counted.
SenderSendTo ==
  /\ LibRunning /\ pcS = "send_to"
  /\ \E ok \in BOOLEAN :
       IF ok
         THEN /\ net' = net \cup {Datagram("reply", id, nsent, stamp)}
              /\ pcS' = "fetch_add"
         ELSE /\ net' = net
              /\ pcS' = "insert"
  /\ stamp' = 0
  /\ UNCHANGED <<mainVars, overflowChecks, id, time_map, a_send, recv, min,
                 max, total, stopped, pcR, cur, now, nsent, lastSeq, fresh,
                 report, result,
                 found>>

\* lib.rs 174, 180: a_send.fetch_add(1), then the sleep.
SenderFetchAdd ==
  /\ LibRunning /\ pcS = "fetch_add"
  /\ a_send' = (a_send + 1) % (WideMax + 1)
  /\ pcS' = "insert"
  /\ UNCHANGED <<mainVars, overflowChecks, id, stamp, time_map, recv, min, max, total,
                 stopped, pcR, cur, net, now, nsent, lastSeq, fresh, report, result,
                 found>>

senderVars == <<overflowChecks, id, stamp, a_send, pcS, nsent, lastSeq>>

\* lib.rs 190-192: the receiver's loop tests the stopped flag.
ReceiverCheck ==
  /\ pcR = "check"
  /\ pcR' = IF stopped THEN "report" ELSE "recv_from"
  /\ cur' = NoDatagram
  /\ UNCHANGED <<mainVars, senderVars, time_map, recv, min, max, total, stopped, net,
                 now, fresh, report, result,
                 found>>

\* The test without the comparison of the sender's address.
FromAnyAddress(d) == d.kind # "empty"
\* lib.rs 196: size > 0 && a == addr
FromDestination(d) == d.kind # "empty" /\ d.kind # "other_addr"
\* lib.rs 198: Packet::parse(&buffer[..size]) is Ok
Parses(d) == d.kind \in {"reply", "other_addr"}

\* lib.rs 194-199: recv_from returns a datagram: a reply in flight (which
\* the network may deliver again later) or any other datagram.
ReceiverRecvFrom ==
  /\ pcR = "recv_from"
  /\ \E d \in net \cup Junk, again \in BOOLEAN :
       /\ net' = IF again THEN net ELSE net \ {d}
       /\ IF FromDestination(d) /\ Parses(d)
            THEN cur' = d /\ pcR' = "lookup"
            ELSE cur' = Datagram(d.kind, 0, 0, 0) /\ pcR' = "check"
  /\ UNCHANGED <<mainVars, senderVars, time_map, recv, min, max, total, stopped, now,
                 fresh, report, result,
                 found>>

\* The kinds of io::Error recv_from may return: the read timed out (an RW
\* with a read timeout), or any other transport error.
ErrorKinds == {"TimedOut", "Other"}

\* lib.rs 230-232: recv_from fails; ping returns the error, whatever its
\* kind.
ReceiverRecvError ==
  /\ pcR = "recv_from"
  /\ \E e \in ErrorKinds : result' = e
  /\ pcR' = "failed"
  /\ UNCHANGED <<mainVars, senderVars, time_map, recv, min, max, total,
                 stopped, cur, net, now, fresh, report, found>>

\* lib.rs 200-225: under the lock, look the id up and account the reply.
ReceiverLookup ==
  /\ pcR = "lookup"
  /\ IF cur.id \in DOMAIN time_map
       THEN LET elapsed == now - time_map[cur.id]
            IN /\ min' = CmpMin(min, elapsed)
               /\ max' = CmpMax(max, elapsed)
               /\ total' = total + elapsed
               /\ recv' = recv + 1
       ELSE UNCHANGED <<min, max, total, recv>>
  /\ found' = IF cur.id \in DOMAIN time_map THEN lastSeq[cur.id] ELSE 0
  /\ pcR' = "remove"
  /\ UNCHANGED <<mainVars, senderVars, time_map, stopped, cur, net, now,
                 fresh, report, result>>

\* lib.rs 226: a_time_map_cloned.lock().unwrap().remove(&id)
ReceiverRemove ==
  /\ pcR = "remove"
  /\ time_map' = MapRemove(time_map, cur.id)
  /\ fresh' = [fresh EXCEPT ![cur.id] = FALSE]
  /\ cur' = NoDatagram
  /\ found' = 0
  /\ pcR' = "check"
  /\ UNCHANGED <<mainVars, senderVars, recv, min, max, total, stopped, net,
                 now, report, result>>

\* lib.rs 236-257: the statistics; ping returns Ok(()).
ReceiverReport ==
  /\ pcR = "report"
  /\ LET send == a_send IN
       report' = [kind |-> "stats", send |-> send, recv |-> recv,
                  loss |-> FloatLossRate(LostCount(send, recv), send),
                  rtt |-> IF recv # 0 THEN <<min, total \div recv, max>>
                                     ELSE << >>]
  /\ result' = "Ok"
  /\ pcR' = "done"
  /\ UNCHANGED <<mainVars, senderVars, time_map, recv, min, max, total,
                 stopped, cur, net, now, fresh, found>>

\* The caller sets the stopped flag (lib.rs 119, 190).
Stop ==
  /\ LibRunning /\ ~stopped
  /\ stopped' = TRUE
  /\ UNCHANGED <<mainVars, senderVars, time_map, recv, min, max, total, pcR, cur, net,
                 now, fresh, report, result,
                 found>>

\* Time passes.
Tick ==
  /\ LibRunning /\ now < MaxTime
  /\ now' = now + 1
  /\ UNCHANGED <<mainVars, senderVars, time_map, recv, min, max, total, stopped, pcR,
                 cur, net, fresh, report, result,
                 found>>

\* The network loses a reply.
LoseReply ==
  /\ LibRunning
  /\ \E d \in net : net' = net \ {d}
  /\ UNCHANGED <<mainVars, senderVars, time_map, recv, min, max, total, stopped, pcR,
                 cur, now, fresh, report, result,
                 found>>

LibNext ==
  \/ SenderInsert \/ SenderSendTo \/ SenderFetchAdd
  \/ ReceiverCheck \/ ReceiverRecvFrom \/ ReceiverRecvError
  \/ ReceiverLookup \/ ReceiverRemove \/ ReceiverReport
  \/ Stop \/ Tick \/ LoseReply

\* ------------------------------------------------------------ main.rs
MainInit ==
  /\ hostOk \in BOOLEAN
  /\ count \in 0 .. MaxProbes
  /\ m_send = 0 /\ m_recv = 0
  /\ latency_total = 0 /\ latency_min = WideMax /\ latency_max = 0
  /\ chan = 0 /\ signals = 0
  /\ pcP = "build" /\ p_id = 0 /\ duration = 0
  /\ m_net = {}
  /\ p_cur = NoDatagram /\ p_result = "none"
  /\ timeouts = 0 /\ errors = 0
  /\ pcM = "rx_recv"
  /\ r_send = 0 /\ r_recv = 0 /\ lost = 0 /\ loss_rate = 0
  /\ r_total = 0 /\ latency_avg = 0 /\ r_min = 0 /\ r_max = 0
  /\ m_report = NoReport

\* The process lives until main has returned or panicked.
MainRunning == pcM \notin {"exited", "panicked"}

reportVars == <<pcM, r_send, r_recv, lost, loss_rate, r_total, latency_avg,
                r_min, r_max, m_report>>
atomics == <<m_send, m_recv, latency_total, latency_min, latency_max>>
pingVars == <<p_cur, p_result>>
printed == <<timeouts, errors>>

\* main.rs 300-302: the Ctrl+C handler writes to the channel.
CtrlC ==
  /\ MainRunning /\ signals < MaxSignals
  /\ signals' = signals + 1
  /\ chan' = chan + 1
  /\ UNCHANGED <<libVars, hostOk, count, atomics, pcP, p_id, duration, m_net,
                 reportVars, pingVars, printed>>

\* main.rs 322-335: the pseudo query is built; on failure the thread
\* reports it, writes to the channel and returns.
ProberBuild ==
  /\ MainRunning /\ pcP = "build"
  /\ IF hostOk
       THEN pcP' = "fetch_add" /\ chan' = chan /\ errors' = errors
       ELSE pcP' = "returned" /\ chan' = chan + 1 /\ errors' = errors + 1
  /\ UNCHANGED <<libVars, hostOk, count, atomics, signals, p_id, duration,
                 m_net, reportVars, pingVars, timeouts>>

\* An id that is the counter's value before the increment.
FetchAddIdOld(old) == old
\* send.fetch_add(1, Relaxed).checked_add(1).unwrap_or(0)
FetchAddId(old) == IF old = WideMax THEN 0 ELSE old + 1

\* main.rs 344-348: the next id is drawn from the send counter.
ProberFetchAdd ==
  /\ MainRunning /\ pcP = "fetch_add" /\ m_send < MaxProbes
  /\ p_id' = FetchAddId(m_send)
  /\ m_send' = (m_send + 1) % (WideMax + 1)
  /\ pcP' = "ping"
  /\ UNCHANGED <<libVars, hostOk, count, m_recv, latency_total, latency_min,
                 latency_max, chan, signals, duration, m_net, reportVars, pingVars, printed>>

\* `id as u16`
AsU16(n) == n % IdModulus

\* The single-shot probe sends its query; the server's reply is then in
\* flight.  A transport error is returned to the caller.
PingSend ==
  /\ MainRunning /\ pcP = "ping"
  /\ \E ok \in BOOLEAN :
       IF ok
         THEN /\ m_net' = m_net \cup {AsU16(p_id)}
              /\ pcP' = "ping_recv" /\ p_result' = p_result
         ELSE /\ m_net' = m_net
              /\ pcP' = "match" /\ p_result' = "Other"
  /\ UNCHANGED <<libVars, hostOk, count, atomics, chan, signals, p_id,
                 duration, reportVars, p_cur, printed>>

\* A probe that accepts a reply without comparing its id.
PingAcceptsAnyId(d, want) == FromDestination(d) /\ Parses(d)
\* A reply is accepted when it comes from the destination, parses and
\* carries the id of the query.
PingAccepts(d, want) == FromDestination(d) /\ Parses(d) /\ d.id = want

\* The single-shot probe receives a datagram: the matching reply ends the
\* probe with Ok and the elapsed time, any other is discarded and the probe
\* receives again.
PingRecv ==
  /\ MainRunning /\ pcP = "ping_recv"
  /\ \E d \in {Datagram("reply", i, 0, 0) : i \in m_net} \cup Junk :
       /\ m_net' = IF d.kind = "reply" THEN m_net \ {d.id} ELSE m_net
       /\ p_cur' = d
       /\ IF PingAccepts(d, AsU16(p_id))
            THEN \E e \in 0 .. MaxTime :
                   duration' = e /\ pcP' = "match" /\ p_result' = "Ok"
            ELSE duration' = duration /\ pcP' = "ping_recv"
                 /\ p_result' = p_result
  /\ UNCHANGED <<libVars, hostOk, count, atomics, chan, signals, p_id,
                 reportVars, printed>>

\* The read times out: the probe returns the TimedOut error.
PingTimedOut ==
  /\ MainRunning /\ pcP = "ping_recv"
  /\ p_result' = "TimedOut"
  /\ pcP' = "match"
  /\ UNCHANGED <<libVars, hostOk, count, atomics, chan, signals, p_id, duration,
                 m_net, reportVars, p_cur, printed>>

\* Another transport error: the probe returns it.
PingError ==
  /\ MainRunning /\ pcP = "ping_recv"
  /\ p_result' = "Other"
  /\ pcP' = "match"
  /\ UNCHANGED <<libVars, hostOk, count, atomics, chan, signals, p_id, duration,
                 m_net, reportVars, p_cur, printed>>

\* main.rs 371-376: every error kind but TimedOut ends the thread.
EndsThread(e) == e # "TimedOut"

\* main.rs 351-380: the match on the probe's result.  Ok goes on to the
\* accounting; TimedOut is printed and the loop goes on; any other error is
\* reported, written to the channel, and the thread returns.
ProberMatch ==
  /\ MainRunning /\ pcP = "match"
  /\ IF p_result = "Ok"
       THEN pcP' = "recv_add" /\ UNCHANGED <<chan, timeouts, errors>>
       ELSE IF EndsThread(p_result)
         THEN /\ errors' = errors + 1
              /\ chan' = chan + 1
              /\ pcP' = "returned"
              /\ timeouts' = timeouts
         ELSE /\ timeouts' = timeouts + 1
              /\ pcP' = "count"
              /\ UNCHANGED <<chan, errors>>
  /\ p_result' = "none"
  /\ p_cur' = NoDatagram
  /\ UNCHANGED <<libVars, hostOk, count, atomics, signals, p_id, duration,
                 m_net, reportVars>>

\* main.rs 361: recv.fetch_add(1, Relaxed)
ProberRecvAdd ==
  /\ MainRunning /\ pcP = "recv_add"
  /\ m_recv' = (m_recv + 1) % (WideMax + 1)
  /\ pcP' = "total_add"
  /\ UNCHANGED <<libVars, hostOk, count, m_send, latency_total, latency_min,
                 latency_max, chan, signals, p_id, duration, m_net,
                 reportVars, pingVars, printed>>

\* main.rs 363: latency_total.fetch_add(duration, Relaxed)
ProberTotalAdd ==
  /\ MainRunning /\ pcP = "total_add"
  /\ latency_total' = (latency_total + duration) % (WideMax + 1)
  /\ pcP' = "max_upd"
  /\ UNCHANGED <<libVars, hostOk, count, m_send, m_recv, latency_min, latency_max,
                 chan, signals, p_id, duration, m_net, reportVars, pingVars, printed>>

\* main.rs 364-366
ProberMaxUpdate ==
  /\ MainRunning /\ pcP = "max_upd"
  /\ latency_max' = IF latency_max < duration THEN duration ELSE latency_max
  /\ pcP' = "min_upd"
  /\ UNCHANGED <<libVars, hostOk, count, m_send, m_recv, latency_total, latency_min,
                 chan, signals, p_id, duration, m_net, reportVars, pingVars, printed>>

\* main.rs 367-369
ProberMinUpdate ==
  /\ MainRunning /\ pcP = "min_upd"
  /\ latency_min' = IF latency_min > duration THEN duration ELSE latency_min
  /\ pcP' = "count"
  /\ UNCHANGED <<libVars, hostOk, count, m_send, m_recv, latency_total, latency_max,
                 chan, signals, p_id, duration, m_net, reportVars, pingVars, printed>>

\* main.rs 384-394: the maximum count ends the thread, else it sleeps.
ProberCount ==
  /\ MainRunning /\ pcP = "count"
  /\ IF p_id = count
       THEN pcP' = "returned" /\ chan' = chan + 1
       ELSE pcP' = "fetch_add" /\ chan' = chan
  /\ UNCHANGED <<libVars, hostOk, count, atomics, signals, p_id, duration, m_net,
                 reportVars, pingVars, printed>>

proberVars == <<hostOk, count, signals, pcP, p_id, duration, m_net, p_cur,
                p_result, timeouts, errors>>

\* main.rs 399: rx.recv() returns once a message is in the channel.
MainRxRecv ==
  /\ pcM = "rx_recv" /\ chan > 0
  /\ chan' = chan - 1
  /\ pcM' = "load_send"
  /\ UNCHANGED <<libVars, proberVars, atomics, r_send, r_recv, lost, loss_rate,
                 r_total, latency_avg, r_min, r_max, m_report>>

\* main.rs 401
MainLoadSend ==
  /\ pcM = "load_send"
  /\ r_send' = m_send
  /\ pcM' = "load_recv"
  /\ UNCHANGED <<libVars, proberVars, atomics, chan, r_recv, lost, loss_rate, r_total,
                 latency_avg, r_min, r_max, m_report>>

\* main.rs 406-409, in hundredths of a percent
LossRate(l, send) == IF send = 0 THEN 0 ELSE (l * 10000) \div send

\* main.rs 402-409
MainLoadRecv ==
  /\ pcM = "load_recv"
  /\ r_recv' = m_recv
  /\ lost' = LostCount(r_send, m_recv)
  /\ loss_rate' = LossRate(LostCount(r_send, m_recv), r_send)
  /\ pcM' = "load_total"
  /\ UNCHANGED <<libVars, proberVars, atomics, chan, r_send, r_total, latency_avg,
                 r_min, r_max, m_report>>

\* main.rs 411: latency_total / send as u64
LatencyAvg(t, send) == t \div send

\* main.rs 410-411: the integer division panics when send is 0.
MainLoadTotal ==
  /\ pcM = "load_total"
  /\ r_total' = latency_total
  /\ IF r_send = 0
       THEN pcM' = "panicked" /\ latency_avg' = latency_avg
       ELSE pcM' = "load_min" /\ latency_avg' = LatencyAvg(latency_total, r_send)
  /\ UNCHANGED <<libVars, proberVars, atomics, chan, r_send, r_recv, lost, loss_rate,
                 r_min, r_max, m_report>>

\* main.rs 412
MainLoadMin ==
  /\ pcM = "load_min"
  /\ r_min' = latency_min
  /\ pcM' = "load_max"
  /\ UNCHANGED <<libVars, proberVars, atomics, chan, r_send, r_recv, lost, loss_rate,
                 r_total, latency_avg, r_max, m_report>>

\* main.rs 413
MainLoadMax ==
  /\ pcM = "load_max"
  /\ r_max' = latency_max
  /\ pcM' = "print"
  /\ UNCHANGED <<libVars, proberVars, atomics, chan, r_send, r_recv, lost, loss_rate,
                 r_total, latency_avg, r_min, m_report>>

\* main.rs 415-431: the statistics are printed and main returns.
MainPrint ==
  /\ pcM = "print"
  /\ m_report' = [kind |-> "stats", send |-> r_send, recv |-> r_recv,
                  loss |-> loss_rate,
                  rtt |-> IF r_recv # 0 THEN <<r_min, latency_avg, r_max>>
                                       ELSE << >>]
  /\ pcM' = "exited"
  /\ UNCHANGED <<libVars, proberVars, atomics, chan, r_send, r_recv, lost, loss_rate,
                 r_total, latency_avg, r_min, r_max>>

MainNext ==
  \/ CtrlC \/ ProberBuild \/ ProberFetchAdd
  \/ PingSend \/ PingRecv \/ PingTimedOut \/ PingError \/ ProberMatch
  \/ ProberRecvAdd \/ ProberTotalAdd \/ ProberMaxUpdate \/ ProberMinUpdate
  \/ ProberCount
  \/ MainRxRecv \/ MainLoadSend \/ MainLoadRecv \/ MainLoadTotal
  \/ MainLoadMin \/ MainLoadMax \/ MainPrint

\* ------------------------------------------------------ specifications
\* The session of main.rs before it is started.
MainIdle == MainInit /\ hostOk /\ count = 0
\* The session of lib.rs before it is started.
LibIdle == LibInit

\* lib.rs, ping
Init == LibInit /\ MainIdle
Next == LibNext
Spec == Init /\ [][Next]_vars

\* main.rs, main
InitMain == MainInit /\ LibIdle
NextMain == MainNext
MainSpec == InitMain /\ [][NextMain]_vars

\* lib.rs, ping, with both threads scheduled: every step of the sender
\* thread and of the receiver that is not a wait for the network is
\* eventually taken.  Whether a datagram arrives, whether the flag is set
\* and whether time passes is left to the environment.
FairSpec ==
  /\ Spec
  /\ WF_vars(SenderInsert) /\ WF_vars(SenderSendTo) /\ WF_vars(SenderFetchAdd)
  /\ WF_vars(ReceiverCheck) /\ WF_vars(ReceiverLookup)
  /\ WF_vars(ReceiverRemove) /\ WF_vars(ReceiverReport)

\* The report path of main.rs 401-409 started from any pair of counter
\* values (both counters are unsigned values that wrap, so every pair can
\* be met).
InitLost ==
  /\ LibIdle
  /\ hostOk = TRUE /\ count = 0
  /\ m_send \in 0 .. WideMax /\ m_recv \in 0 .. WideMax
  /\ latency_total = 0 /\ latency_min = WideMax /\ latency_max = 0
  /\ chan = 0 /\ signals = 0
  /\ pcP = "returned" /\ p_id = 0 /\ duration = 0
  /\ m_net = {}
  /\ p_cur = NoDatagram /\ p_result = "none"
  /\ timeouts = 0 /\ errors = 0
  /\ pcM = "load_send"
  /\ r_send = 0 /\ r_recv = 0 /\ lost = 0 /\ loss_rate = 0
  /\ r_total = 0 /\ latency_avg = 0 /\ r_min = 0 /\ r_max = 0
  /\ m_report = NoReport

NextLost == MainLoadSend \/ MainLoadRecv

LostSpec == InitLost /\ [][NextLost]_vars

\* -------------------------------------------------------------- claims
counters == <<recv, min, max, total>>
\* The receiver's step from the lookup to the remove.
LookupStep == pcR = "lookup" /\ pcR' = "remove"
\* The receiver's remove.
RemoveStep == pcR = "remove" /\ pcR' = "check"

\* C1: in the continuous session, a reply from the destination whose id is
\* still in the correlation table raises the received count by exactly one,
\* and the remove that follows leaves the id out of the table, so that the
\* same reply, looked up again, is not counted.
C1_PendingReplyCountedOnce ==
  [][/\ (LookupStep /\ cur.id \in DOMAIN time_map) => recv' = recv + 1
     /\ RemoveStep => cur.id \notin DOMAIN time_map'
     /\ (LookupStep /\ cur.id \notin DOMAIN time_map) => recv' = recv
     /\ ~LookupStep => recv' = recv]_vars

\* C1 witness: the only query sent was answered and counted, its entry was
\* removed, and a second copy of the reply is being looked up.
C1_Witness ==
  /\ nsent = 1 /\ recv = 1
  /\ pcR = "lookup" /\ cur.seq = 1
  /\ cur.id \notin DOMAIN time_map

Discarded(d) == d.kind \in {"other_addr", "unparsable", "empty"}

\* C2: a datagram from another address, an unparsable or empty one, or a
\* reply whose id is not in the correlation table leaves recv, min, max and
\* total as they are, and the receiver goes on with its loop.
C2_UnmatchedDatagramIgnored ==
  [][/\ (Discarded(cur) \/ Discarded(cur')) => counters' = counters
     /\ (pcR = "recv_from" /\ Discarded(cur')) => pcR' = "check"
     /\ (LookupStep /\ cur.id \notin DOMAIN time_map) => counters' = counters
     /\ (pcR = "lookup" /\ cur.id \notin DOMAIN time_map)
          => pcR' \in {"lookup", "remove"}]_vars

\* C2 witness: with a query pending, a datagram from another address was
\* received and dropped.
C2_Witness ==
  /\ pcR = "check" /\ cur.kind = "other_addr"
  /\ time_map # << >> /\ recv = 0

\* The query number q reuses an id: an earlier query carried the same id.
ReusesId(q) == q > IdModulus

\* C3: after the identifiers have wrapped, the reply to the latest query
\* with a reused id, when no datagram with that id was in flight or being
\* handled as the query was recorded and none was handled since, finds the
\* query's own entry: it is counted, with the time elapsed since the
\* query's own timestamp.
C3_ReusedIdMatchesOwnReply ==
  [][(/\ LookupStep
      /\ ReusesId(cur.seq) /\ cur.seq = lastSeq[cur.id]
      /\ fresh[cur.id])
       => /\ cur.id \in DOMAIN time_map
          /\ recv' = recv + 1
          /\ total' = total + (now - cur.sentAt)]_vars

\* C3 witness: the reply to a query with a reused id has been matched (its
\* entry is still in the table, about to be removed).
C3_Witness ==
  /\ pcR = "remove"
  /\ ReusesId(cur.seq) /\ cur.seq = lastSeq[cur.id]
  /\ fresh[cur.id]
  /\ cur.id \in DOMAIN time_map
  /\ recv >= 1

\* main has finished with the channel's message: it printed or panicked.
MainFinished == pcM \in {"exited", "panicked"}
\* main has loaded the first counter and has not printed yet.
Reporting == pcM \in {"load_recv", "load_total", "load_min", "load_max", "print"}

\* C4: in every final report the lost count is between 0 and the sent count
\* that is printed, and the loss percentage is between 0 and 100.
C4_LossWithinBounds ==
  m_report.kind = "stats"
    => /\ 0 <= lost /\ lost <= m_report.send
       /\ m_report.loss \in 0 .. 10000

\* C5: when main reports with sent = 0, the report is printed with a loss
\* percentage of 0, and no division by zero takes place.
C5_ZeroSentReportsZeroLoss ==
  (MainFinished /\ r_send = 0)
    => /\ pcM = "exited"
       /\ m_report.kind = "stats" /\ m_report.loss = 0

\* C6: when received > 0, the average latency of the final report is the
\* total latency divided by the received count.
C6_AverageIsTotalOverReceived ==
  (m_report.kind = "stats" /\ m_report.recv > 0)
    => m_report.rtt[2] = r_total \div m_report.recv

\* C7: a final report with received = 0, sent = 0 included, is printed
\* without latency figures and is computed without a division by zero.
C7_NoLatencyWhenNothingReceived ==
  (MainFinished /\ r_recv = 0)
    => /\ pcM # "panicked"
       /\ m_report.kind = "stats" /\ m_report.rtt = << >>

\* C8: once the receiver has seen the stopped flag, the sender records and
\* sends no further query and the sent counter does not grow.
C8_NoQueryAfterStop ==
  [][pcR = "report"
       => /\ a_send' = a_send
          /\ nsent' = nsent
          /\ net' \subseteq net]_vars

\* C9: once the stopped flag is set, the receiver eventually leaves its
\* receive loop, also when no further datagram arrives.
C9_ReceiverLeavesLoop ==
  stopped ~> (pcR \in {"report", "done", "failed"})

\* C10: from the first load of the report to its printing, none of the
\* five statistics changes.
C10_StatisticsStableWhileReporting ==
  [][Reporting => atomics' = atomics]_vars

\* C11: a TimedOut result of recv_from never ends the session: ping has not
\* returned because of it.
C11_TimedOutKeepsSession ==
  ~(pcR = "failed" /\ result = "TimedOut")

\* C12: when another transport error has ended the session, the final
\* statistics have been produced.  (After lib.rs 231 ping has returned, so
\* what is not printed by then never is.)
C12_ErrorStillReports ==
  (pcR = "failed" /\ result = "Other") => report.kind = "stats"

\* The session was ended by the maximum count alone: a limit is set, no
\* interrupt came and no error was reported.
EndedByCount == count > 0 /\ signals = 0 /\ errors = 0
Reported == m_report.kind = "stats"

\* C13: in a session with maximum count N > 0 in which every probe was
\* answered, the thread has ended after N probes and the final report has
\* sent = N, received = N, loss 0 and min <= avg <= max.
C13_AllAnsweredReport ==
  (Reported /\ EndedByCount /\ timeouts = 0) =>
    /\ pcP = "returned" /\ m_send = count
    /\ m_report.send = count /\ m_report.recv = count
    /\ m_report.loss = 0
    /\ Len(m_report.rtt) = 3
    /\ m_report.rtt[1] <= m_report.rtt[2]
    /\ m_report.rtt[2] <= m_report.rtt[3]
\* Such a report after more than one probe, with different latencies.
C13_Witness ==
  /\ Reported /\ EndedByCount /\ timeouts = 0
  /\ count > 1 /\ m_report.rtt[1] < m_report.rtt[3]

\* C14: in a session with maximum count N > 0 in which every probe timed
\* out, the thread has ended after N probes and the final report has
\* sent = N, received = 0, loss 100 percent and no latency figures.
C14_NoneAnsweredReport ==
  (Reported /\ EndedByCount /\ timeouts = count) =>
    /\ pcP = "returned" /\ m_send = count
    /\ m_report.send = count /\ m_report.recv = 0
    /\ m_report.loss = 10000
    /\ m_report.rtt = << >>
\* Such a report after more than one probe.
C14_Witness ==
  Reported /\ EndedByCount /\ timeouts = count /\ count > 1

\* The datagram is a reply from the destination with the id of the probe.
Matches(d) == d.kind = "reply" /\ d.id = AsU16(p_id)

\* C15: while the single-shot probe receives, a datagram that does not
\* match is discarded (the probe goes on receiving, no statistic changes);
\* the probe returns Ok only for a reply from the destination with the id
\* it sent; otherwise it returns TimedOut or another error, without a
\* duration.
C15_ProbeAcceptsOnlyItsReply ==
  [][pcP = "ping_recv" =>
       \/ /\ pcP' = "ping_recv" /\ p_result' = "none"
          /\ p_cur' = NoDatagram \/ ~Matches(p_cur')
          /\ atomics' = atomics /\ duration' = duration
       \/ /\ pcP' = "match" /\ p_result' = "Ok"
          /\ Matches(p_cur')
       \/ /\ pcP' = "match" /\ p_result' \in {"TimedOut", "Other"}
          /\ atomics' = atomics /\ duration' = duration]_vars
\* The probe has discarded a late reply to an earlier probe.
C15_Witness ==
  pcP = "ping_recv" /\ p_cur.kind = "reply" /\ p_cur.id # AsU16(p_id)

\* C16: in the continuous session the received counter never exceeds the
\* sent counter.
C16_ReceivedAtMostSent ==
  recv <= a_send

\* C17: the correlation table is written before the query is handed to the
\* transport: while a query is being sent, and for every reply to a
\* transmitted query that is in flight or in the receiver's hands, the
\* entry of its id has been written by that query or by a later one.
C17_InsertBeforeSend ==
  /\ pcS = "send_to" => (nsent > 0 /\ lastSeq[id] = nsent)
  /\ \A d \in net \cup {cur} : d.seq > 0 => lastSeq[d.id] >= d.seq
\* The receiver looks up the reply to a transmitted query.
C17_Witness ==
  pcR = "lookup" /\ cur.seq > 0

\* C19: the increment of the query identifier never faults.
C19_IncrementNeverFaults ==
  pcS # "panicked"

\* C20: the sent counter counts every probe, also one whose send_to
\* failed: between two probes it equals the number of queries recorded.
C20_FailedSendCounted ==
  pcS = "insert" => a_send = nsent

\* C18: the lost count is (sent - received) modulo 2^w, within the counter
\* width.
C18_LostIsDifferenceModulo ==
  pcM = "load_total" =>
    /\ lost = (r_send - r_recv) % (WideMax + 1)
    /\ lost \in 0 .. WideMax

\* C21: the receiver's remove deletes only the entry its lookup matched: an
\* entry that another query has written under the same id since the lookup
\* is still in the table after the remove.
C21_RemovesOnlyMatchedEntry ==
  [][(RemoveStep /\ cur.id \in DOMAIN time_map /\ lastSeq[cur.id] # found)
       => cur.id \in DOMAIN time_map']_vars

\* C22: a final report with received > 0 prints a min that is not the
\* initial value of latency_min, and min <= max.
C22_PrintedMinMaxAreLatencies ==
  (Reported /\ m_report.recv > 0) =>
    /\ m_report.rtt[1] # WideMax
    /\ m_report.rtt[1] <= m_report.rtt[3]
====
